---- MODULE Spec2Model ----
(***************************************************************************)
(* index_key: lexicographic sort order encoding (src/src/lib.rs).          *)
(*                                                                         *)
(* A key is a sequence of bytes (0..255).  A value is described by its     *)
(* shape, the sequence of the scalar types of its members: a shape of      *)
(* length 1 is a scalar, a longer one a tuple (impl_tuple).  Scalar types  *)
(* are "vec" (Vec<u8>), "u8", "u16", "i8", "i16", "i32", "f32" and "bool". *)
(* Integers are mathematical integers inside the range of their type; an   *)
(* f32 is the record of the three fields of its bit pattern.               *)
(***************************************************************************)
EXTENDS Integers, Sequences, FiniteSets, TLC

VARIABLES pc, shape, a, b, ka, kb, src, res

vars == <<pc, shape, a, b, ka, kb, src, res>>

(***************************************************************************)
(* Bounds of the inputs.                                                   *)
(***************************************************************************)
\* longest byte blob encoded on its own
MaxLen == 3
\* longest byte blob that is a member of a tuple
TupleMaxLen == 2
\* how far from each boundary value the numeric inputs reach
Spread == 1

(***************************************************************************)
(* Program constants.                                                      *)
(***************************************************************************)
\* size_of::<i32>() * 8: the width the f32 transform works on
F32Bits == 32
\* the mantissa and exponent widths of an IEEE-754 binary32
F32MantBits == 23
F32ExpMax == 255

TypeBits(t) ==
    CASE t = "u8" -> 8
      [] t = "u16" -> 16
      [] t = "i8" -> 8
      [] t = "i16" -> 16
      [] t = "i32" -> 32
      [] t = "f32" -> F32Bits
      [] t = "bool" -> 8

UnsignedTypes == {"u8", "u16"}
SignedTypes == {"i8", "i16", "i32"}

\* std::$t::MIN and MAX of a signed type of the given width
IntMin(bits) == (-(2 ^ (bits - 2))) * 2
IntMax(bits) == (2 ^ (bits - 2) - 1) * 2 + 1
\* std::$t::MAX of an unsigned type
UMax(bits) == 2 ^ bits - 1

(***************************************************************************)
(* Bitwise operators on two's complement integers.                         *)
(***************************************************************************)
RECURSIVE BitXor(_, _)
BitXor(x, y) ==
    IF x \in {0, -1} /\ y \in {0, -1}
    THEN (IF x = y THEN 0 ELSE -1)
    ELSE 2 * BitXor(x \div 2, y \div 2) + (((x % 2) + (y % 2)) % 2)

RECURSIVE BitOr(_, _)
BitOr(x, y) ==
    IF x \in {0, -1} /\ y \in {0, -1}
    THEN (IF x = -1 \/ y = -1 THEN -1 ELSE 0)
    ELSE 2 * BitOr(x \div 2, y \div 2) + (IF x % 2 = 1 \/ y % 2 = 1 THEN 1 ELSE 0)

BitNot(x) == (-1) - x

\* the arithmetic (sign-extending) right shift of a signed integer
RECURSIVE ShrA(_, _)
ShrA(x, n) == IF n = 0 THEN x ELSE ShrA(x \div 2, n - 1)

(***************************************************************************)
(* to_be_bytes / from_be_bytes.                                            *)
(***************************************************************************)
RECURSIVE to_be_bytes(_, _)
to_be_bytes(x, n) ==
    IF n = 0 THEN <<>> ELSE Append(to_be_bytes(x \div 256, n - 1), x % 256)

RECURSIVE be_fold(_, _)
be_fold(acc, slice) ==
    IF slice = <<>> THEN acc ELSE be_fold(acc * 256 + Head(slice), Tail(slice))

u_from_be_bytes(slice) == be_fold(0, slice)

i_from_be_bytes(slice) ==
    be_fold(IF Head(slice) >= 128 THEN Head(slice) - 256 ELSE Head(slice), Tail(slice))

(***************************************************************************)
(* Reading from a Cursor: read_exact of n bytes at position pos (1-based). *)
(* On end of file it fails and leaves the cursor at the end.               *)
(***************************************************************************)
read_exact(key, pos, n) ==
    IF pos + n - 1 <= Len(key)
    THEN [ok |-> TRUE, buf |-> SubSeq(key, pos, pos + n - 1), pos |-> pos + n]
    ELSE [ok |-> FALSE, buf |-> <<>>, pos |-> Len(key) + 1]

\* Result<T, Error> of a from_key, with the cursor position it leaves
Ok(v, p) == [ok |-> TRUE, val |-> v, pos |-> p]
Err(p) == [ok |-> FALSE, val |-> <<>>, pos |-> p]

(***************************************************************************)
(* escape_encode: 0x01 before each 0x00 / 0x01 byte, 0x00 at the end.      *)
(***************************************************************************)
RECURSIVE escape_encode_escapes_zero_only(_, _, _)
escape_encode_escapes_zero_only(s, pos, result) ==
    LET r == read_exact(s, pos, 1) IN
    IF ~r.ok THEN Append(result, 0)
    ELSE LET item == r.buf[1]
             marked == IF item = 0 THEN Append(result, 1) ELSE result
         IN  escape_encode_escapes_zero_only(s, r.pos, Append(marked, item))

RECURSIVE escape_encode(_, _, _)
escape_encode(s, pos, result) ==
    LET r == read_exact(s, pos, 1) IN
    IF ~r.ok THEN Append(result, 0)
    ELSE LET item == r.buf[1]
             marked == IF item \in {0, 1} THEN Append(result, 1) ELSE result
         IN  escape_encode(s, r.pos, Append(marked, item))

(***************************************************************************)
(* escape_decode: state is TRUE in the normal state, FALSE right after an  *)
(* escape marker.  When the source runs out the loop ends and the bytes    *)
(* collected so far are returned as Ok.                                    *)
(***************************************************************************)
RECURSIVE escape_decode_no_escape(_, _, _, _)
escape_decode_no_escape(s, pos, state, result) ==
    LET r == read_exact(s, pos, 1) IN
    IF ~r.ok THEN Ok(result, r.pos)
    ELSE LET item == r.buf[1] IN
         IF state /\ item = 0 THEN Ok(result, r.pos)
         ELSE escape_decode_no_escape(s, r.pos, TRUE, Append(result, item))

RECURSIVE escape_decode_reads_past_end(_, _, _, _)
escape_decode_reads_past_end(s, pos, state, result) ==
    LET r == read_exact(s, pos, 1) IN
    IF ~r.ok THEN Ok(result, r.pos)
    ELSE LET item == r.buf[1] IN
         IF state /\ item = 0 THEN Ok(result, read_exact(s, r.pos, 1).pos)
         ELSE IF state /\ item = 1
              THEN escape_decode_reads_past_end(s, r.pos, FALSE, result)
              ELSE escape_decode_reads_past_end(s, r.pos, TRUE, Append(result, item))

RECURSIVE escape_decode(_, _, _, _)
escape_decode(s, pos, state, result) ==
    LET r == read_exact(s, pos, 1) IN
    IF ~r.ok THEN Ok(result, r.pos)
    ELSE LET item == r.buf[1] IN
         IF state /\ item = 0 THEN Ok(result, r.pos)
         ELSE IF state /\ item = 1
              THEN escape_decode(s, r.pos, FALSE, result)
              ELSE escape_decode(s, r.pos, TRUE, Append(result, item))

(***************************************************************************)
(* impl IndexKey for Vec<u8>.                                              *)
(***************************************************************************)
vec_to_key(v, result) == escape_encode(v, 1, result)

vec_from_key(key, pos) == escape_decode(key, pos, TRUE, <<>>)

(***************************************************************************)
(* impl_u: big-endian bytes.                                               *)
(***************************************************************************)
u_to_key(v, bits, result) == result \o to_be_bytes(v, bits \div 8)

\* a short read taken as zero bytes
u_from_key_zero_fill(key, pos, bits) ==
    LET n == bits \div 8
        slice == [i \in 1..n |-> IF pos + i - 1 <= Len(key) THEN key[pos + i - 1] ELSE 0]
    IN  Ok(u_from_be_bytes(slice), pos + n)

u_from_key(key, pos, bits) ==
    LET r == read_exact(key, pos, bits \div 8) IN
    IF ~r.ok THEN Err(r.pos) ELSE Ok(u_from_be_bytes(r.buf), r.pos)

(***************************************************************************)
(* impl_i: big-endian bytes of the value XOR MIN.                          *)
(***************************************************************************)
i_to_key_no_xor(v, bits, result) == result \o to_be_bytes(v, bits \div 8)

i_to_key(v, bits, result) ==
    result \o to_be_bytes(BitXor(v, IntMin(bits)), bits \div 8)

i_from_key(key, pos, bits) ==
    LET r == read_exact(key, pos, bits \div 8) IN
    IF ~r.ok THEN Err(r.pos)
    ELSE Ok(BitXor(i_from_be_bytes(r.buf), IntMin(bits)), r.pos)

(***************************************************************************)
(* impl_f, for f32: a float is [sign, exp, mant].                          *)
(***************************************************************************)
\* self.to_bits() as i32
f_to_bits(f) ==
    LET low == f.exp * (2 ^ F32MantBits) + f.mant IN
    IF f.sign = 1 THEN IntMin(F32Bits) + low ELSE low

\* f32::from_bits(v as u32)
f_from_bits(v) ==
    LET low == IF v < 0 THEN v - IntMin(F32Bits) ELSE v IN
    [sign |-> IF v < 0 THEN 1 ELSE 0,
     exp |-> low \div (2 ^ F32MantBits),
     mant |-> low % (2 ^ F32MantBits)]

\* a logical shift in place of the arithmetic one
f_to_key_logical_shift(f, result) ==
    LET value == f_to_bits(f)
        mask == BitOr(IF value < 0 THEN 1 ELSE 0, IntMin(F32Bits))
    IN  result \o to_be_bytes(BitXor(mask, value), F32Bits \div 8)

\* the sign bit flipped and nothing else, as for a signed integer
f_to_key_sign_flip_only(f, result) ==
    result \o to_be_bytes(BitXor(IntMin(F32Bits), f_to_bits(f)), F32Bits \div 8)

f_to_key(f, result) ==
    LET value == f_to_bits(f)
        mask == BitOr(ShrA(value, F32Bits - 1), IntMin(F32Bits))
    IN  result \o to_be_bytes(BitXor(mask, value), F32Bits \div 8)

\* the mask taken from the sign of the key as it is, not inverted
f_from_key_same_mask(key, pos) ==
    LET r == read_exact(key, pos, F32Bits \div 8) IN
    IF ~r.ok THEN Err(r.pos)
    ELSE LET value == i_from_be_bytes(r.buf)
             mask == BitOr(ShrA(value, F32Bits - 1), IntMin(F32Bits))
         IN  Ok(f_from_bits(BitXor(mask, value)), r.pos)

f_from_key(key, pos) ==
    LET r == read_exact(key, pos, F32Bits \div 8) IN
    IF ~r.ok THEN Err(r.pos)
    ELSE LET value == i_from_be_bytes(r.buf)
             mask == BitOr(ShrA(BitNot(value), F32Bits - 1), IntMin(F32Bits))
         IN  Ok(f_from_bits(BitXor(mask, value)), r.pos)

(***************************************************************************)
(* impl IndexKey for bool.                                                 *)
(***************************************************************************)
bool_to_key(v, result) == IF v THEN Append(result, 1) ELSE Append(result, 0)

bool_from_key(key, pos) ==
    LET r == read_exact(key, pos, 1) IN
    IF ~r.ok THEN Err(r.pos) ELSE Ok(r.buf[1] # 0, r.pos)

(***************************************************************************)
(* The IndexKey trait: the implementation the member's type selects.       *)
(***************************************************************************)
IndexKey_to_key(t, v, result) ==
    CASE t = "vec" -> vec_to_key(v, result)
      [] t \in UnsignedTypes -> u_to_key(v, TypeBits(t), result)
      [] t \in SignedTypes -> i_to_key(v, TypeBits(t), result)
      [] t = "f32" -> f_to_key(v, result)
      [] t = "bool" -> bool_to_key(v, result)

IndexKey_from_key(t, key, pos) ==
    CASE t = "vec" -> vec_from_key(key, pos)
      [] t \in UnsignedTypes -> u_from_key(key, pos, TypeBits(t))
      [] t \in SignedTypes -> i_from_key(key, pos, TypeBits(t))
      [] t = "f32" -> f_from_key(key, pos)
      [] t = "bool" -> bool_from_key(key, pos)

(***************************************************************************)
(* impl_tuple: the members in declared order, each written after the one   *)
(* before it, each decoded from where the one before it stopped; the first *)
(* failing member fails the whole decode.                                  *)
(***************************************************************************)
RECURSIVE tuple_to_key_reversed(_, _, _, _)
tuple_to_key_reversed(sh, v, i, result) ==
    IF i > Len(sh) THEN result
    ELSE IndexKey_to_key(sh[i], v[i], tuple_to_key_reversed(sh, v, i + 1, result))

RECURSIVE tuple_to_key(_, _, _, _)
tuple_to_key(sh, v, i, result) ==
    IF i > Len(sh) THEN result
    ELSE tuple_to_key(sh, v, i + 1, IndexKey_to_key(sh[i], v[i], result))

RECURSIVE tuple_from_key(_, _, _, _, _)
tuple_from_key(sh, key, pos, i, acc) ==
    IF i > Len(sh) THEN Ok(acc, pos)
    ELSE LET r == IndexKey_from_key(sh[i], key, pos) IN
         IF ~r.ok THEN Err(r.pos)
         ELSE tuple_from_key(sh, key, r.pos, i + 1, Append(acc, r.val))

(***************************************************************************)
(* The entry points: to_key into a fresh Vec, from_key from a Cursor at    *)
(* the start of the given bytes.                                           *)
(***************************************************************************)
to_key(sh, v) == tuple_to_key(sh, v, 1, <<>>)

from_key(sh, key) == tuple_from_key(sh, key, 1, 1, <<>>)

(***************************************************************************)
(* The orders the encoding is to preserve: Vec<u8>'s byte-wise             *)
(* lexicographic order (a strict prefix is smaller), f32's numeric order   *)
(* on values that are not NaN, and the order of (Vec<u8>, u16) tuples.     *)
(***************************************************************************)
LexLess(s, t) ==
    \E i \in 1..(Len(t)) :
        /\ \A j \in 1..(i - 1) : j <= Len(s) /\ s[j] = t[j]
        /\ \/ i = Len(s) + 1
           \/ i <= Len(s) /\ s[i] < t[i]

f_is_nan(f) == f.exp = F32ExpMax /\ f.mant # 0

f_magnitude(f) == f.exp * (2 ^ F32MantBits) + f.mant

f_lt(x, y) ==
    IF f_magnitude(x) = 0 /\ f_magnitude(y) = 0 THEN FALSE
    ELSE IF x.sign # y.sign THEN x.sign = 1
    ELSE IF x.sign = 0 THEN f_magnitude(x) < f_magnitude(y)
    ELSE f_magnitude(x) > f_magnitude(y)

F32_INFINITY == [sign |-> 0, exp |-> F32ExpMax, mant |-> 0]
F32_NEG_INFINITY == [sign |-> 1, exp |-> F32ExpMax, mant |-> 0]
F32_ZERO == [sign |-> 0, exp |-> 0, mant |-> 0]
F32_NEG_ZERO == [sign |-> 1, exp |-> 0, mant |-> 0]

(***************************************************************************)
(* The inputs.  Byte blobs are all sequences over Alphabet up to a length; *)
(* 8-bit integers are all the values of their type; wider numbers are the  *)
(* values within d of the boundaries of their type and of the byte         *)
(* boundaries inside it.                                                   *)
(***************************************************************************)
Alphabet == {0, 1, 2, 255}

Blobs(n) == UNION {[1..k -> Alphabet] : k \in 0..n}

Around(c, d) == {c + k : k \in (-d)..d}
Above(c, d) == {c + k : k \in 0..d}
Below(c, d) == {c - k : k \in 0..d}

USamples(bits, d) ==
    IF bits = 8 THEN 0..UMax(bits) ELSE
    Above(0, d) \cup Below(UMax(bits), d) \cup Around(2 ^ (bits - 1), d)
        \cup UNION {Around(2 ^ j, d) : j \in {j \in {8} : j < bits}}

ISamples(bits, d) ==
    IF bits = 8 THEN IntMin(bits)..IntMax(bits) ELSE
    Around(0, d) \cup Above(IntMin(bits), d) \cup Below(IntMax(bits), d)
        \cup UNION {Around(2 ^ j, d) \cup Around(-(2 ^ j), d) :
                        j \in {j \in {8, 16, 24} : j < bits - 1}}

FSamples(d) ==
    LET es == Above(0, d) \cup Around(127, d) \cup Below(F32ExpMax, d)
        mmax == 2 ^ F32MantBits - 1
        ms == Above(0, d) \cup {2 ^ (F32MantBits - 1)} \cup Below(mmax, d)
    IN  [sign : {0, 1}, exp : es, mant : ms]

Samples(t, n, d) ==
    CASE t = "vec" -> Blobs(n)
      [] t \in UnsignedTypes -> USamples(TypeBits(t), d)
      [] t \in SignedTypes -> ISamples(TypeBits(t), d)
      [] t = "f32" -> FSamples(d)
      [] t = "bool" -> BOOLEAN

ScalarShapes ==
    {<<"vec">>, <<"u8">>, <<"u16">>, <<"i8">>, <<"i16">>, <<"i32">>, <<"f32">>, <<"bool">>}

TupleShapes == {<<"vec", "u16">>, <<"vec", "vec", "bool">>, <<"i16", "vec", "f32">>}

\* the values of a shape: a sequence with one value per member
RECURSIVE Products(_, _, _, _)
Products(sh, i, n, d) ==
    IF i > Len(sh) THEN {<<>>}
    ELSE {<<x>> \o rest : x \in Samples(sh[i], n, d), rest \in Products(sh, i + 1, n, d)}

Values(sh) ==
    IF Len(sh) = 1 THEN Products(sh, 1, MaxLen, Spread) ELSE Products(sh, 1, TupleMaxLen, 0)

NoResult == [ok |-> FALSE, val |-> <<>>, pos |-> 0]

(***************************************************************************)
(* Round trips: a value is encoded with to_key, the key is handed to       *)
(* from_key whole or cut short.                                            *)
(***************************************************************************)
Init ==
    /\ pc = "start"
    /\ shape \in ScalarShapes \cup TupleShapes
    /\ a \in Values(shape)
    /\ b = <<>>
    /\ ka = <<>>
    /\ kb = <<>>
    /\ src = <<>>
    /\ res = NoResult

CallToKey ==
    /\ pc = "start"
    /\ ka' = to_key(shape, a)
    /\ src' = ka'
    /\ pc' = "encoded"
    /\ UNCHANGED <<shape, a, b, kb, res>>

Truncate ==
    /\ pc = "encoded"
    /\ \E n \in 0..(Len(ka) - 1) : src' = SubSeq(ka, 1, n)
    /\ pc' = "truncated"
    /\ UNCHANGED <<shape, a, b, ka, kb, res>>

CallFromKey ==
    /\ pc \in {"encoded", "truncated"}
    /\ res' = from_key(shape, src)
    /\ pc' = "decoded"
    /\ UNCHANGED <<shape, a, b, ka, kb, src>>

Next == CallToKey \/ Truncate \/ CallFromKey

Spec == Init /\ [][Next]_vars

(***************************************************************************)
(* Comparisons: two values of one shape are encoded and their keys         *)
(* compared byte-wise.                                                     *)
(***************************************************************************)
CmpShapes == ScalarShapes \cup {<<"vec", "u16">>}

InitCmp ==
    /\ pc = "start"
    /\ shape \in CmpShapes
    /\ a \in Values(shape)
    /\ b \in Values(shape)
    /\ ka = <<>>
    /\ kb = <<>>
    /\ src = <<>>
    /\ res = NoResult

CompareKeys ==
    /\ pc = "start"
    /\ ka' = to_key(shape, a)
    /\ kb' = to_key(shape, b)
    /\ pc' = "compared"
    /\ UNCHANGED <<shape, a, b, src, res>>

NextCmp == CompareKeys

SpecCmp == InitCmp /\ [][NextCmp]_vars

(***************************************************************************)
(* Helpers of the properties.                                              *)
(***************************************************************************)
FixedWidthTypes == UnsignedTypes \cup SignedTypes \cup {"f32", "bool"}

LexLeq(s, t) == s = t \/ LexLess(s, t)

\* the key was handed to from_key whole
Whole == pc = "decoded" /\ src = ka

\* the stream ends before a 0x00 is read in the normal state
RECURSIVE Unterminated(_, _, _)
Unterminated(s, i, normal) ==
    IF i > Len(s) THEN TRUE
    ELSE IF normal /\ s[i] = 0 THEN FALSE
    ELSE Unterminated(s, i + 1, ~(normal /\ s[i] = 1))

\* where member i of the value starts in its key (Len(shape) + 1: the end)
MemberStart(sh, v, i) == Len(to_key(SubSeq(sh, 1, i - 1), SubSeq(v, 1, i - 1))) + 1

(***************************************************************************)
(* C1: byte blobs keep their order: s1 < s2 byte-wise (a strict prefix is  *)
(* smaller) exactly when to_key(s1) < to_key(s2) byte-wise.                *)
(***************************************************************************)
C1_BlobOrderPreserved ==
    (pc = "compared" /\ shape = <<"vec">>)
        => (LexLess(a[1], b[1]) <=> LexLess(ka, kb))

C1_Witness ==
    /\ pc = "compared" /\ shape = <<"vec">>
    /\ a[1] = <<1>> /\ b[1] = <<1, 0>>
    /\ ka = <<1, 1, 0>> /\ kb = <<1, 1, 1, 0, 0>>
    /\ LexLess(ka, kb)

(***************************************************************************)
(* C2: escape round trip: decoding the key of a byte blob succeeds and     *)
(* gives the blob back, 0x00 and 0x01 bytes and the empty blob included.   *)
(***************************************************************************)
C2_EscapeRoundTrip ==
    (Whole /\ shape = <<"vec">>) => (res.ok /\ res.val = a)

C2_Witness ==
    /\ Whole /\ shape = <<"vec">>
    /\ a[1] = <<0, 1, 255>>
    /\ ka = <<1, 0, 1, 1, 255, 0>>
    /\ res.ok /\ res.val = a

(***************************************************************************)
(* C3: a stream that ends before an unescaped 0x00 is read in the normal   *)
(* state (the empty stream, one with no 0x00, one ending right after an    *)
(* escape marker) makes from_key::<Vec<u8>> return an error.               *)
(***************************************************************************)
C3_UnterminatedIsError ==
    (pc = "decoded" /\ shape = <<"vec">> /\ Unterminated(src, 1, TRUE)) => ~res.ok

(***************************************************************************)
(* C4: keys of (Vec<u8>, u16) tuples compare as the tuples do: the blobs   *)
(* decide when they differ, whatever the integers; with equal blobs the    *)
(* integers decide.                                                        *)
(***************************************************************************)
C4_TupleLexicographic ==
    (pc = "compared" /\ shape = <<"vec", "u16">>)
        => /\ LexLess(a[1], b[1]) => LexLess(ka, kb)
           /\ LexLess(b[1], a[1]) => LexLess(kb, ka)
           /\ a[1] = b[1] => /\ a[2] < b[2] <=> LexLess(ka, kb)
                             /\ a[2] = b[2] <=> ka = kb
                             /\ a[2] > b[2] <=> LexLess(kb, ka)

C4_Witness ==
    /\ pc = "compared" /\ shape = <<"vec", "u16">>
    /\ a = << <<1>>, 65535 >> /\ b = << <<1, 0>>, 0 >>
    /\ LexLess(ka, kb)

(***************************************************************************)
(* C5: integers keep their order: a < b exactly when to_key(a) < to_key(b) *)
(* byte-wise; the most negative value of a signed type encodes to all-zero *)
(* bytes and the most positive to all-one bytes.                           *)
(***************************************************************************)
C5_IntegerOrderPreserved ==
    (pc = "compared" /\ Len(shape) = 1 /\ shape[1] \in UnsignedTypes \cup SignedTypes)
        => /\ a[1] < b[1] <=> LexLess(ka, kb)
           /\ shape[1] \in SignedTypes =>
                /\ a[1] = IntMin(TypeBits(shape[1])) => \A i \in 1..Len(ka) : ka[i] = 0
                /\ a[1] = IntMax(TypeBits(shape[1])) => \A i \in 1..Len(ka) : ka[i] = 255

C5_Witness ==
    /\ pc = "compared" /\ shape = <<"i16">>
    /\ a[1] = IntMin(16) /\ b[1] = IntMax(16)
    /\ ka = <<0, 0>> /\ kb = <<255, 255>>

(***************************************************************************)
(* C6: floats that are not NaN keep their numeric order; the key of -0.0   *)
(* is strictly below the key of 0.0; the key of NEG_INFINITY is the least  *)
(* and the key of INFINITY the greatest among them.                        *)
(***************************************************************************)
C6_FloatOrderPreserved ==
    (pc = "compared" /\ shape = <<"f32">> /\ ~f_is_nan(a[1]) /\ ~f_is_nan(b[1]))
        => /\ f_lt(a[1], b[1]) => LexLess(ka, kb)
           /\ (a[1] = F32_NEG_ZERO /\ b[1] = F32_ZERO) => LexLess(ka, kb)
           /\ a[1] = F32_NEG_INFINITY => LexLeq(ka, kb)
           /\ b[1] = F32_INFINITY => LexLeq(ka, kb)

C6_Witness ==
    /\ pc = "compared" /\ shape = <<"f32">>
    /\ a[1] = [sign |-> 1, exp |-> 128, mant |-> 0]
    /\ b[1] = [sign |-> 1, exp |-> 127, mant |-> 1]
    /\ LexLess(ka, kb)

(***************************************************************************)
(* C7, as stated: every NaN bit pattern, with either sign bit, has a key   *)
(* strictly above the key of INFINITY.                                     *)
(***************************************************************************)
C7_EveryNaNAboveInfinity ==
    (pc = "compared" /\ shape = <<"f32">> /\ f_is_nan(a[1]) /\ b[1] = F32_INFINITY)
        => LexLess(kb, ka)

(***************************************************************************)
(* C7, amended: a NaN with sign bit 0 has a key strictly above the key of  *)
(* INFINITY; a NaN with sign bit 1 has a key strictly below the key of     *)
(* NEG_INFINITY.                                                           *)
(***************************************************************************)
C7_NaNBySign ==
    (pc = "compared" /\ shape = <<"f32">> /\ f_is_nan(a[1]))
        => /\ (a[1].sign = 0 /\ b[1] = F32_INFINITY) => LexLess(kb, ka)
           /\ (a[1].sign = 1 /\ b[1] = F32_NEG_INFINITY) => LexLess(ka, kb)

C7_Witness ==
    /\ pc = "compared" /\ shape = <<"f32">>
    /\ a[1] = [sign |-> 1, exp |-> F32ExpMax, mant |-> 2 ^ (F32MantBits - 1)]
    /\ b[1] = F32_NEG_INFINITY
    /\ ka = <<0, 63, 255, 255>>
    /\ LexLess(ka, kb)

(***************************************************************************)
(* C8: fixed-width round trip: for unsigned and signed integers, bool and  *)
(* floats (every bit pattern, NaN payloads included) from_key(to_key(v))   *)
(* succeeds and returns v.                                                 *)
(***************************************************************************)
C8_FixedWidthRoundTrip ==
    (Whole /\ Len(shape) = 1 /\ shape[1] \in FixedWidthTypes)
        => (res.ok /\ res.val = a)

C8_Witness ==
    /\ Whole /\ shape = <<"f32">>
    /\ a[1] = [sign |-> 1, exp |-> F32ExpMax, mant |-> 1]
    /\ ka = <<0, 127, 255, 254>>
    /\ res.ok /\ res.val = a

(***************************************************************************)
(* C9: tuple round trip: from_key(to_key(t)) returns t, and decoding each  *)
(* member from where its encoding starts returns the member and stops at   *)
(* the first byte of the next member's encoding.                           *)
(***************************************************************************)
C9_TupleRoundTrip ==
    (Whole /\ Len(shape) >= 2)
        => /\ res = Ok(a, Len(ka) + 1)
           /\ \A i \in 1..Len(shape) :
                IndexKey_from_key(shape[i], ka, MemberStart(shape, a, i))
                    = Ok(a[i], MemberStart(shape, a, i + 1))

C9_Witness ==
    /\ Whole /\ shape = <<"vec", "vec", "bool">>
    /\ a = << <<0, 1>>, <<>>, TRUE >>
    /\ ka = <<1, 0, 1, 1, 0, 0, 1>>
    /\ res.ok /\ res.val = a

(***************************************************************************)
(* C10: truncation: a fixed-width member whose bytes are cut short makes   *)
(* from_key return an error, for a scalar and for a member of a tuple      *)
(* whose earlier members are all there.                                    *)
(***************************************************************************)
C10_TruncationIsError ==
    (pc = "decoded" /\ Len(src) < Len(ka))
        => \A i \in 1..Len(shape) :
              ( /\ shape[i] \in FixedWidthTypes
                /\ MemberStart(shape, a, i) - 1 <= Len(src)
                /\ Len(src) < MemberStart(shape, a, i + 1) - 1 )
                  => (~res.ok /\ res.val = <<>>)

C10_Witness ==
    /\ pc = "decoded" /\ shape = <<"vec", "u16">>
    /\ a = << <<2>>, 256 >>
    /\ ka = <<2, 0, 1, 0>> /\ src = <<2, 0, 1>>
    /\ ~res.ok

====
